---- MODULE Spec2Model ----
(***************************************************************************)
(* In-memory sliding-window rate limiter of ResumeAI                       *)
(* (src/lib/security/rate-limiter.ts) and the route handlers that call it. *)
(*                                                                         *)
(* Time is Date.now() in milliseconds.  Strings are TLC strings; header    *)
(* values that the code splits and trims are sequences of one-character    *)
(* strings, joined back into a string by Str.                              *)
(***************************************************************************)
EXTENDS Integers, Sequences, FiniteSets, TLC

VARIABLES
    now,      \* the value Date.now() returns
    store,    \* the module-level Map: key -> RateLimitEntry
    last,     \* the latest checkRateLimit call: its arguments, instant and result
    hist,     \* per caller, the decisions taken so far: <<[t, path, retryAfter]>>
    solo,     \* per caller, the Map of the run in which only that caller made requests
    swept,    \* the latest sweeper run recorded: its instant, the Map before and after
    unswept,  \* the Map of the run with the same calls in which the sweeper never runs
    reborn,   \* the Map of the run that restarts a key from nothing at each call that
              \* finds its window elapsed and its block expired
    calls,    \* number of checkRateLimit calls so far
    tier,     \* the registry tier a burst scenario exhausts
    pc,       \* per in-flight route handler, the await point it is suspended at
    req       \* per route handler, its request (epoch: the calls made before it arrived),
              \* and once it has called checkRateLimit: key, instant, count seen, path,
              \* fresh: the call created the entry

vars == <<now, store, last, hist, solo, swept, unswept, reborn, calls, tier, pc, req>>

----------------------------------------------------------------------------
(* Bounds of the model *)

\* checkRateLimit calls in one run of Spec
MaxCalls == 4

\* requests beyond max in a burst
MaxExtra == 2

\* checkRateLimit calls in one run of SpecSweep
MaxSweepCalls == 11

\* rate-limited requests to the AI-backed endpoints in one run of SpecAi
MaxAiRequests == 6

\* requests a route handler slot serves in one run of SpecRoutes
MaxRequests == 6

----------------------------------------------------------------------------
(* Constants of the program *)

\* sweeper retention, now - t < 300_000
RetentionMs == 300000

\* mutant: the UPLOAD tier takes the class name and the maximum of the AI tier
RATE_LIMITS_merged ==
    [ AI      |-> [max |-> 5,   windowSec |-> 60, prefix |-> "ai"],
      UPLOAD  |-> [max |-> 5,   windowSec |-> 60, prefix |-> "ai"],
      CRUD    |-> [max |-> 30,  windowSec |-> 60, prefix |-> "crud"],
      READ    |-> [max |-> 60,  windowSec |-> 60, prefix |-> "read"],
      ADMIN   |-> [max |-> 20,  windowSec |-> 60, prefix |-> "admin"],
      WEBHOOK |-> [max |-> 100, windowSec |-> 60, prefix |-> "webhook"] ]

RATE_LIMITS ==
    [ AI      |-> [max |-> 5,   windowSec |-> 60, prefix |-> "ai"],
      UPLOAD  |-> [max |-> 10,  windowSec |-> 60, prefix |-> "upload"],
      CRUD    |-> [max |-> 30,  windowSec |-> 60, prefix |-> "crud"],
      READ    |-> [max |-> 60,  windowSec |-> 60, prefix |-> "read"],
      ADMIN   |-> [max |-> 20,  windowSec |-> 60, prefix |-> "admin"],
      WEBHOOK |-> [max |-> 100, windowSec |-> 60, prefix |-> "webhook"] ]

TierNames == DOMAIN RATE_LIMITS

----------------------------------------------------------------------------
(* Values *)

\* the return value null of checkRateLimit
Null == [null |-> TRUE]

\* { timestamps: [] }: the optional field blocked_until is absent
NewEntry == [timestamps |-> <<>>]

Range(s) == {s[i] : i \in DOMAIN s}

RECURSIVE Str(_)
Str(cs) == IF cs = <<>> THEN "" ELSE Head(cs) \o Str(Tail(cs))

\* mutant: Math.floor(a / b)
Ceil_floor(a, b) == a \div b

\* Math.ceil(a / b) for b > 0
Ceil(a, b) == -((-a) \div b)

\* Number.prototype.toString() of an integer
NumToString(n) == ToString(n)

Pad2(n) == (IF n < 10 THEN "0" ELSE "") \o ToString(n)
Pad3(n) == (IF n < 10 THEN "00" ELSE IF n < 100 THEN "0" ELSE "") \o ToString(n)
Pad4(n) == (IF n < 10 THEN "000" ELSE IF n < 100 THEN "00" ELSE IF n < 1000 THEN "0" ELSE "")
           \o ToString(n)

\* new Date(ms).toISOString() for 0 <= ms: YYYY-MM-DDTHH:mm:ss.sssZ in UTC
toISOString(ms) ==
    LET days == ms \div 86400000
        rem  == ms % 86400000
        z    == days + 719468
        era  == z \div 146097
        doe  == z - era * 146097
        yoe  == (doe - doe \div 1460 + doe \div 36524 - doe \div 146096) \div 365
        doy  == doe - (365 * yoe + yoe \div 4 - yoe \div 100)
        mp   == (5 * doy + 2) \div 153
        d    == doy - (153 * mp + 2) \div 5 + 1
        m    == IF mp < 10 THEN mp + 3 ELSE mp - 9
        y    == yoe + era * 400 + (IF m <= 2 THEN 1 ELSE 0)
    IN  Pad4(y) \o "-" \o Pad2(m) \o "-" \o Pad2(d) \o "T"
        \o Pad2(rem \div 3600000) \o ":" \o Pad2((rem \div 60000) % 60) \o ":"
        \o Pad2((rem \div 1000) % 60) \o "." \o Pad3(rem % 1000) \o "Z"

----------------------------------------------------------------------------
(* checkRateLimit *)

\* mutant: the key leaves the prefix out
KeyOf_noPrefix(identifier, config) == identifier

\* mutant: the key leaves the identifier out
KeyOf_prefixOnly(identifier, config) == config.prefix \o ":"

\* const key = `${config.prefix}:${identifier}`
KeyOf(identifier, config) == config.prefix \o ":" \o identifier

WindowMs(config) == config.windowSec * 1000

\* mutant: the new entry is never put in the Map
GetOrCreate_unset(st, key) == st

\* get or create entry: store.get(key); if (!entry) store.set(key, { timestamps: [] })
GetOrCreate(st, key) ==
    IF key \in DOMAIN st THEN st ELSE st @@ (key :> NewEntry)

\* mutant: entry is a copy of the stored object, its mutations never reach the Map
WriteEntry_copy(st, key, entry) == st

\* a mutation made through the reference `entry`; it is seen in the Map only when the
\* object is the one stored under key
WriteEntry(st, key, entry) ==
    IF key \in DOMAIN st THEN [st EXCEPT ![key] = entry] ELSE st

\* entry.blocked_until = v
SetBlock(entry, v) == [timestamps |-> entry.timestamps, blocked_until |-> v]

\* truthiness of entry.blocked_until (absent and 0 are falsy)
HasBlock(entry) == "blocked_until" \in DOMAIN entry /\ entry.blocked_until # 0

\* mutant: now <= entry.blocked_until
IsBlocked_inclusive(entry, t) == HasBlock(entry) /\ t <= entry.blocked_until

\* entry.blocked_until && now < entry.blocked_until
IsBlocked(entry, t) == HasBlock(entry) /\ t < entry.blocked_until

\* mutant: now - t <= windowMs
Slide_inclusive(timestamps, t, windowMs) == SelectSeq(timestamps, LAMBDA x : t - x <= windowMs)

\* entry.timestamps.filter((t) => now - t < windowMs)
Slide(timestamps, t, windowMs) == SelectSeq(timestamps, LAMBDA x : t - x < windowMs)

\* mutant: entry.timestamps.length > config.max
OverLimit_strict(timestamps, config) == Len(timestamps) > config.max

\* entry.timestamps.length >= config.max
OverLimit(timestamps, config) == Len(timestamps) >= config.max

\* NextResponse.json({error, retryAfter}, {status: 429, headers})
TooManyRequests(retryAfter, config, resetMs) ==
    [ status  |-> 429,
      body    |-> [error |-> "Too many requests. Please slow down.",
                   retryAfter |-> retryAfter],
      headers |-> ("Retry-After" :> NumToString(retryAfter))
                  @@ ("X-RateLimit-Limit" :> NumToString(config.max))
                  @@ ("X-RateLimit-Remaining" :> "0")
                  @@ ("X-RateLimit-Reset" :> toISOString(resetMs)) ]

\* the fast path of a blocked entry
BlockedResponse(entry, config, t) ==
    TooManyRequests(Ceil(entry.blocked_until - t, 1000), config, entry.blocked_until)

\* mutant: the block is set in seconds, not milliseconds
LimitBlockedUntil_seconds(config, t) == t + config.windowSec

\* the limit-exceeded path: the response, and the block it sets
LimitBlockedUntil(config, t) == t + WindowMs(config)

LimitResponse(config, t) == TooManyRequests(config.windowSec, config, t + WindowMs(config))

\* mutant: entry.timestamps.unshift(now)
Push_front(timestamps, t) == <<t>> \o timestamps

\* entry.timestamps.push(now)
Push(timestamps, t) == Append(timestamps, t)

\* mutant: a retry during a block starts the block afresh
BlockedPathStore_extends(st, key, entry, config, t) ==
    WriteEntry(st, key, SetBlock(entry, t + WindowMs(config)))

\* the Map after the fast path of a blocked entry: the path assigns nothing
BlockedPathStore(st, key, entry, config, t) == st

\* checkRateLimit(identifier, config) called on Map st at instant t:
\* the Map afterwards, the value returned and the path taken
checkRateLimit(st, identifier, config, t) ==
    LET key   == KeyOf(identifier, config)
        st1   == GetOrCreate(st, key)
        entry == IF key \in DOMAIN st1 THEN st1[key] ELSE NewEntry
    IN  IF IsBlocked(entry, t)
        THEN [store |-> BlockedPathStore(st1, key, entry, config, t),
              res |-> BlockedResponse(entry, config, t), path |-> "blocked"]
        ELSE LET slid == [entry EXCEPT !.timestamps = Slide(entry.timestamps, t, WindowMs(config))]
             IN  IF OverLimit(slid.timestamps, config)
                 THEN [store |-> WriteEntry(st1, key,
                                    SetBlock(slid, LimitBlockedUntil(config, t))),
                       res   |-> LimitResponse(config, t),
                       path  |-> "limit"]
                 ELSE [store |-> WriteEntry(st1, key,
                                    [slid EXCEPT !.timestamps = Push(slid.timestamps, t)]),
                       res   |-> Null,
                       path  |-> "allow"]

----------------------------------------------------------------------------
(* The sweeper: the setInterval callback *)

\* mutant: the entry must have had a block: entry.blocked_until && now > entry.blocked_until
Expired_needsBlock(entry, t) ==
    /\ SelectSeq(entry.timestamps, LAMBDA x : t - x < RetentionMs) = <<>>
    /\ HasBlock(entry) /\ t > entry.blocked_until

\* mutant: the comparison is turned round, now - t > 300_000 counts as recent
Expired_reversed(entry, t) ==
    /\ SelectSeq(entry.timestamps, LAMBDA x : t - x > RetentionMs) = <<>>
    /\ (~HasBlock(entry) \/ t > entry.blocked_until)

\* recent.length === 0 && (!entry.blocked_until || now > entry.blocked_until)
Expired(entry, t) ==
    /\ SelectSeq(entry.timestamps, LAMBDA x : t - x < RetentionMs) = <<>>
    /\ (~HasBlock(entry) \/ t > entry.blocked_until)

\* mutant: the filtered timestamps are written back to the entries that stay
sweep_writeback(st, t) ==
    LET keep == {k \in DOMAIN st : ~Expired(st[k], t)}
    IN  [k \in keep |->
            [st[k] EXCEPT !.timestamps = SelectSeq(@, LAMBDA x : t - x < RetentionMs)]]

sweep(st, t) ==
    LET keep == {k \in DOMAIN st : ~Expired(st[k], t)}
    IN  [k \in keep |-> st[k]]

----------------------------------------------------------------------------
(* Identity key derivation *)

\* a header value is a byte string: every character is below U+0100, and the
\* white space and line terminators String.prototype.trim() strips in that range
\* are U+0009 (tab), U+000A, U+000B, U+000C, U+000D, U+0020 and U+00A0
HT == "\t"
LF == "\n"
VT == ""
FF == "\f"
CR == "\r"
SP == " "
NBSP == " "

Whitespace == {HT, LF, VT, FF, CR, SP, NBSP}

RECURSIVE TrimStart(_)
TrimStart(cs) == IF cs # <<>> /\ Head(cs) \in Whitespace THEN TrimStart(Tail(cs)) ELSE cs

RECURSIVE TrimEnd(_)
TrimEnd(cs) ==
    IF cs # <<>> /\ cs[Len(cs)] \in Whitespace THEN TrimEnd(SubSeq(cs, 1, Len(cs) - 1)) ELSE cs

\* String.prototype.trim()
Trim(cs) == TrimEnd(TrimStart(cs))

\* cs.split(",")[0]
RECURSIVE FirstField(_)
FirstField(cs) ==
    IF cs = <<>> \/ Head(cs) = "," THEN <<>> ELSE <<Head(cs)>> \o FirstField(Tail(cs))

\* request.headers.get(name): the value, or null when the header is absent
NoHeader == <<"null">>

HeaderGet(request, name) ==
    IF name \in DOMAIN request.headers THEN request.headers[name] ELSE NoHeader

\* truthiness of a header value: null and "" are falsy
HeaderTruthy(v) == v # NoHeader /\ v # <<>>

\* mutant: forwarded.split(",")[0] without .trim()
getClientIP_noTrim(request) ==
    LET forwarded == HeaderGet(request, "x-forwarded-for")
        real      == HeaderGet(request, "x-real-ip")
    IN  IF HeaderTruthy(forwarded) THEN Str(FirstField(forwarded))
        ELSE IF HeaderTruthy(real) THEN Str(real)
        ELSE "unknown"

getClientIP(request) ==
    LET forwarded == HeaderGet(request, "x-forwarded-for")
        real      == HeaderGet(request, "x-real-ip")
    IN  IF HeaderTruthy(forwarded) THEN Str(Trim(FirstField(forwarded)))
        ELSE IF HeaderTruthy(real) THEN Str(real)
        ELSE "unknown"

\* auth() resolves userId to null for a request without a session; a userId that
\* is a string is the sequence of its characters, as a header value is
NoUser == <<"null">>

\* truthiness of a userId: null and "" are falsy
UserTruthy(userId) == userId # NoUser /\ userId # <<>>

\* mutant: the identifier alone is the key of an authenticated requester
getRateLimitKey_userOnly(request, userId) ==
    IF UserTruthy(userId) THEN Str(userId) ELSE getClientIP(request)

\* userId ? `${userId}:${ip}` : ip
getRateLimitKey(request, userId) ==
    LET ip == getClientIP(request)
    IN  IF UserTruthy(userId) THEN Str(userId) \o ":" \o ip ELSE ip

----------------------------------------------------------------------------
(* State shared by the specifications *)

NoRequest == [null |-> FALSE]

NoSweep == [ran |-> FALSE]

\* the Map st without key
Without(st, key) == [k \in DOMAIN st \ {key} |-> st[k]]

\* key has no entry in st, or an entry whose timestamps are all a full window old at t
\* and whose block, if any, has ended
Elapsed(st, key, config, t) ==
    key \in DOMAIN st =>
        /\ \A i \in DOMAIN st[key].timestamps : t - st[key].timestamps[i] >= WindowMs(config)
        /\ "blocked_until" \in DOMAIN st[key] => t >= st[key].blocked_until

\* a caller: an identifier and the class name of the configuration it calls under
Who(identifier, config) == <<identifier, config.prefix>>

\* the Map of the run in which only caller w made requests
SoloOf(w) == IF w \in DOMAIN solo THEN solo[w] ELSE <<>>

HistOf(w) == IF w \in DOMAIN hist THEN hist[w] ELSE <<>>

\* one call checkRateLimit(identifier, config) at Date.now() = now, with its bookkeeping
Decide(identifier, config) ==
    LET w     == Who(identifier, config)
        out   == checkRateLimit(store, identifier, config, now)
        alone == checkRateLimit(SoloOf(w), identifier, config, now)
        plain == checkRateLimit(unswept, identifier, config, now)
        again == checkRateLimit(IF Elapsed(store, KeyOf(identifier, config), config, now)
                                THEN Without(reborn, KeyOf(identifier, config))
                                ELSE reborn,
                                identifier, config, now)
        ev    == [t |-> now, path |-> out.path,
                  retryAfter |-> IF out.res = Null THEN 0 ELSE out.res.body.retryAfter]
    IN  /\ store' = out.store
        /\ last' = [identifier |-> identifier, config |-> config,
                    key |-> KeyOf(identifier, config), t |-> now,
                    res |-> out.res, path |-> out.path, soloRes |-> alone.res,
                    unsweptRes |-> plain.res, rebornRes |-> again.res]
        /\ hist' = [x \in DOMAIN hist \cup {w} |->
                        IF x = w THEN Append(HistOf(w), ev) ELSE hist[x]]
        /\ solo' = [x \in DOMAIN solo \cup {w} |->
                        IF x = w THEN alone.store ELSE solo[x]]
        /\ unswept' = plain.store
        /\ reborn' = again.store
        /\ calls' = calls + 1
        /\ UNCHANGED swept

\* the setInterval callback runs; the timer is armed when the module is loaded, at an
\* instant unrelated to the requests, so a run may fall at any instant
SweepMaps ==
    /\ store' = sweep(store, now)
    /\ solo' = [k \in DOMAIN solo |-> sweep(solo[k], now)]
    /\ reborn' = sweep(reborn, now)
    /\ UNCHANGED <<now, last, hist, unswept, calls, tier, pc, req>>

Sweep == SweepMaps /\ UNCHANGED swept

----------------------------------------------------------------------------
(* Spec: any interleaving of checkRateLimit calls, clock advances and sweeper runs *)

\* the instants Date.now() takes
Instants == {0, 1000, 1500, 60000, 61000, 65000, 400000}

\* the configurations the calls pass: checkRateLimit takes its config as an argument;
\* these have the registry's window and class names and a max small enough for every
\* path to be taken within MaxCalls calls (the registry's own values: SpecBurst)
Strict == [max |-> 1, windowSec |-> 60, prefix |-> "ai"]
Loose  == [max |-> 2, windowSec |-> 60, prefix |-> "read"]

\* who calls, and under which configuration
Callers == { <<"a", Strict>>, <<"b", Strict>>, <<"a", Loose>> }

Init ==
    /\ now = 0
    /\ store = <<>>
    /\ last = NoRequest
    /\ hist = <<>>
    /\ solo = <<>>
    /\ swept = NoSweep
    /\ unswept = <<>>
    /\ reborn = <<>>
    /\ calls = 0
    /\ tier = "none"
    /\ pc = <<>>
    /\ req = <<>>

Check ==
    /\ calls < MaxCalls
    /\ \E c \in Callers : Decide(c[1], c[2])
    /\ UNCHANGED <<now, tier, pc, req>>

Tick ==
    /\ \E t \in Instants : t > now /\ now' = t
    /\ UNCHANGED <<store, last, hist, solo, swept, unswept, reborn, calls, tier, pc, req>>

Next == Check \/ Tick \/ Sweep

Spec == Init /\ [][Next]_vars

----------------------------------------------------------------------------
(* Claims checked under Spec *)

CallerIds == {Who(c[1], c[2]) : c \in Callers}

ConfigOf(w) == (CHOOSE c \in Callers : Who(c[1], c[2]) = w)[2]

Allowed(e) == e.path = "allow"

Denied(e) == e.path \in {"blocked", "limit"}

\* the allowed decisions of caller w whose instants lie in (t - windowMs, t]
AllowedWithin(w, t) ==
    {i \in DOMAIN HistOf(w) :
        /\ Allowed(HistOf(w)[i])
        /\ t - WindowMs(ConfigOf(w)) < HistOf(w)[i].t
        /\ HistOf(w)[i].t <= t}

\* C1: for every caller and every instant t, at most max allowed decisions have their
\* instants inside the trailing window (t - windowSec, t], whatever the interleaving
\* of calls, clock advances and sweeper runs
C1_AtMostMaxPerWindow ==
    \A w \in CallerIds : \A t \in Instants :
        Cardinality(AllowedWithin(w, t)) <= ConfigOf(w).max

\* a caller has used its whole quota in one window and was denied inside it, after
\* an earlier window in which it was also admitted
C1_Witness ==
    \E w \in CallerIds :
        /\ Cardinality(AllowedWithin(w, now)) = ConfigOf(w).max
        /\ \E i \in DOMAIN HistOf(w) : Denied(HistOf(w)[i])
        /\ \E i \in DOMAIN HistOf(w) : Allowed(HistOf(w)[i]) /\ i \notin AllowedWithin(w, now)

\* C3: after a limit-exceeded deny at d, every request of the caller at d <= t <
\* blockedUntil is denied and the first request at t >= blockedUntil is allowed
C3_DeniedUntilBlockEnds ==
    \A w \in CallerIds :
        LET h == HistOf(w) IN
        \A i \in DOMAIN h : \A j \in DOMAIN h :
            LET until == h[i].t + WindowMs(ConfigOf(w)) IN
            ( /\ i < j
              /\ h[i].path = "limit"
              /\ \A m \in (i + 1)..(j - 1) : h[m].t < until )
            => IF h[j].t < until THEN Denied(h[j]) ELSE Allowed(h[j])

\* a limit-exceeded deny, a deny during the block, and the allow once it has ended
C3_Witness ==
    \E w \in CallerIds :
        LET h == HistOf(w) IN
        \E i \in DOMAIN h :
            /\ h[i].path = "limit"
            /\ i + 2 \in DOMAIN h
            /\ h[i + 1].path = "blocked"
            /\ h[i + 1].t > h[i].t
            /\ Allowed(h[i + 2])
            /\ h[i + 2].t = h[i].t + WindowMs(ConfigOf(w))

\* C4: every result returned to a caller is the result the same call returns in the
\* run in which no other caller made any request
C4_OtherIdentitiesDoNotInfluence ==
    last # NoRequest => last.res = last.soloRes

\* "b" is allowed under the configuration whose limit "a" has exhausted and under
\* which "a" is blocked
C4_Witness ==
    /\ last # NoRequest
    /\ last.identifier = "b"
    /\ last.res = Null
    /\ last.t = now
    /\ KeyOf("a", last.config) \in DOMAIN store
    /\ IsBlocked(store[KeyOf("a", last.config)], now)

\* the entry a call finds: the stored one, or a new one
EntryBefore(key) == IF key \in DOMAIN store THEN store[key] ELSE [timestamps |-> <<>>]

IsDenyResult(r) ==
    /\ DOMAIN r = {"status", "body", "headers"}
    /\ r.status = 429
    /\ DOMAIN r.body = {"error", "retryAfter"}

\* C8: a call returns null or a 429 result, and it returns the 429 result exactly
\* when the entry is blocked at now or holds at least max timestamps of age < windowSec
C8_TwoOutcomes ==
    [][calls' # calls =>
        LET e == EntryBefore(last'.key)
            c == last'.config
            inWindow == {i \in DOMAIN e.timestamps : now - e.timestamps[i] < c.windowSec * 1000}
            deny == \/ ("blocked_until" \in DOMAIN e /\ now < e.blocked_until)
                    \/ Cardinality(inWindow) >= c.max
        IN  /\ last'.res = Null \/ IsDenyResult(last'.res)
            /\ (last'.res # Null) <=> deny
    ]_vars

\* both deny paths and the allow path have been taken by one caller
C8_Witness ==
    \E w \in CallerIds :
        {HistOf(w)[i].path : i \in DOMAIN HistOf(w)} = {"allow", "limit", "blocked"}

\* C9: every deny result has status 429, X-RateLimit-Limit = max,
\* X-RateLimit-Remaining = 0, Retry-After = the body's retryAfter, and
\* X-RateLimit-Reset = the entry's blocked_until after the call
C9_DenyHeaders ==
    [][(calls' # calls /\ last'.res # Null) =>
        LET r == last'.res IN
        /\ r.status = 429
        /\ r.headers["X-RateLimit-Limit"] = ToString(last'.config.max)
        /\ r.headers["X-RateLimit-Remaining"] = "0"
        /\ r.headers["Retry-After"] = ToString(r.body.retryAfter)
        /\ last'.key \in DOMAIN store'
        /\ "blocked_until" \in DOMAIN store'[last'.key]
        /\ r.headers["X-RateLimit-Reset"] = toISOString(store'[last'.key].blocked_until)
    ]_vars

\* a deny on the blocked path, at an instant that is not a whole number of seconds
\* before the end of the block, after the deny on the limit path
C9_Witness ==
    /\ last # NoRequest
    /\ last.path = "blocked"
    /\ last.t = 1500
    /\ last.res.headers["X-RateLimit-Reset"] = "1970-01-01T00:01:01.000Z"
    /\ last.res.headers["Retry-After"] = "60"

\* C10: a caller denied at t with retryAfter r whose next request comes at an instant
\* >= t + r seconds is allowed
C10_RetryAfterSuffices ==
    \A w \in CallerIds :
        LET h == HistOf(w) IN
        \A i \in DOMAIN h :
            ( /\ i + 1 \in DOMAIN h
              /\ Denied(h[i])
              /\ h[i + 1].t >= h[i].t + h[i].retryAfter * 1000 )
            => Allowed(h[i + 1])

\* a deny on the blocked path with retryAfter r at t, then the next request at an
\* instant >= t + r seconds
C10_Witness ==
    \E w \in CallerIds :
        LET h == HistOf(w) IN
        \E i \in DOMAIN h :
            /\ i + 1 \in DOMAIN h
            /\ h[i].path = "blocked"
            /\ h[i].retryAfter > 0
            /\ h[i + 1].t >= h[i].t + h[i].retryAfter * 1000
            /\ Allowed(h[i + 1])

----------------------------------------------------------------------------
(* SpecBurst: one identity sends a burst under one registry tier at one instant,  *)
(* and single requests under the other tiers                                      *)

BurstInstants == {0, 1000}

BurstIdentity == "u1"

BurstCaller == Who(BurstIdentity, RATE_LIMITS[tier])

InitBurst ==
    /\ now \in BurstInstants
    /\ tier \in TierNames
    /\ store = <<>>
    /\ last = NoRequest
    /\ hist = <<>>
    /\ solo = <<>>
    /\ swept = NoSweep
    /\ unswept = <<>>
    /\ reborn = <<>>
    /\ calls = 0
    /\ pc = <<>>
    /\ req = <<>>

BurstCall ==
    /\ Len(HistOf(BurstCaller)) < RATE_LIMITS[tier].max + MaxExtra
    /\ Decide(BurstIdentity, RATE_LIMITS[tier])
    /\ UNCHANGED <<now, tier, pc, req>>

Probe ==
    /\ \E n \in TierNames \ {tier} :
          /\ Who(BurstIdentity, RATE_LIMITS[n]) \notin DOMAIN hist
          /\ Decide(BurstIdentity, RATE_LIMITS[n])
    /\ UNCHANGED <<now, tier, pc, req>>

NextBurst == BurstCall \/ Probe \/ Sweep

SpecBurst == InitBurst /\ [][NextBurst]_vars

\* C2: in a burst of a never-seen identity at one instant under a registry tier, the
\* i-th request is allowed exactly when i <= max: the max-th is allowed, the
\* (max+1)-th is denied
C2_BurstAllowsExactlyMax ==
    LET h == HistOf(BurstCaller) IN
    \A i \in DOMAIN h : Allowed(h[i]) <=> i <= RATE_LIMITS[tier].max

\* the burst under the tier of 100 has had its 100th request allowed and its 101st denied
C2_Witness ==
    LET h == HistOf(BurstCaller) IN
    /\ tier = "WEBHOOK"
    /\ Len(h) = 101
    /\ Allowed(h[100])
    /\ h[101].path = "limit"

\* C5: a decision for an identity under one registry tier leaves the entries of every
\* other tier as they were, and a request of the identity under another tier is
\* allowed however far the burst under the first tier has gone
C5_TiersAreIndependent ==
    [][calls' # calls =>
        /\ \A k \in DOMAIN store : k # last'.key => (k \in DOMAIN store' /\ store'[k] = store[k])
        /\ last'.config # RATE_LIMITS[tier] => last'.res = Null
    ]_vars

\* the identity is blocked under "ai", and its "read" request has just been allowed
C5_Witness ==
    /\ tier = "AI"
    /\ last # NoRequest
    /\ last.config = RATE_LIMITS.READ
    /\ last.res = Null
    /\ "ai:u1" \in DOMAIN store
    /\ "blocked_until" \in DOMAIN store["ai:u1"]
    /\ Len(store["ai:u1"].timestamps) = 5
    /\ "read:u1" \in DOMAIN store
    /\ store["read:u1"].timestamps = <<now>>

----------------------------------------------------------------------------
(* SpecRoutes: requests to POST /api/cover-letter/generate served concurrently;  *)
(* a handler runs from one await to the next without interruption                 *)

Handlers == {1, 2}

RouteInstants == {0, 400000}

\* what auth() resolves userId to: null, "" or an identifier
Sessions == {NoUser, <<>>, <<"u", "1">>}

\* the requests' headers
RouteRequests ==
    { [headers |-> [x \in {"x-forwarded-for"} |-> <<"7", ",", " ", "8">>]] }

Idle == [status |-> 0]

InFlight(h) == pc[h] # "idle"

\* handlers that have arrived and have not reached checkRateLimit yet
Undecided == {h \in Handlers : pc[h] = "auth" /\ UserTruthy(req[h].session)}

InitRoutes ==
    /\ now = 0
    /\ store = <<>>
    /\ last = NoRequest
    /\ hist = <<>>
    /\ solo = <<>>
    /\ swept = NoSweep
    /\ unswept = <<>>
    /\ reborn = <<>>
    /\ calls = 0
    /\ tier = "AI"
    /\ pc = [h \in Handlers |-> "idle"]
    /\ req = [h \in Handlers |-> Idle]

\* POST is called; it suspends at await auth()
Arrive(h) ==
    /\ pc[h] = "idle"
    /\ \E session \in Sessions, r \in RouteRequests :
          /\ UserTruthy(session) => calls + Cardinality(Undecided) < MaxRequests
          /\ req' = [req EXCEPT ![h] = [status |-> 0, session |-> session, request |-> r,
                                        epoch |-> calls]]
    /\ pc' = [pc EXCEPT ![h] = "auth"]
    /\ UNCHANGED <<now, store, last, hist, solo, swept, unswept, reborn, calls, tier>>

\* auth() resolved without a user: 401, checkRateLimit is not reached
Unauthorized(h) ==
    /\ pc[h] = "auth"
    /\ ~UserTruthy(req[h].session)
    /\ pc' = [pc EXCEPT ![h] = "done"]
    /\ req' = [req EXCEPT ![h] = [status |-> 401]]
    /\ UNCHANGED <<now, store, last, hist, solo, swept, unswept, reborn, calls, tier>>

\* auth() resolved with a user: the handler runs checkRateLimit and returns the 429
\* result, or goes on and suspends at await req.json()
RateLimit(h) ==
    /\ pc[h] = "auth"
    /\ UserTruthy(req[h].session)
    /\ LET identifier == getRateLimitKey(req[h].request, req[h].session)
           config     == RATE_LIMITS[tier]
           key        == KeyOf(identifier, config)
           seen       == Len(Slide(EntryBefore(key).timestamps, now, WindowMs(config)))
       IN  /\ Decide(identifier, config)
           /\ pc' = [pc EXCEPT ![h] = IF last'.res = Null THEN "json" ELSE "done"]
           /\ req' = [req EXCEPT ![h] =
                        [status |-> IF last'.res = Null THEN 0 ELSE last'.res.status,
                         key |-> key, at |-> now, seen |-> seen, path |-> last'.path,
                         epoch |-> req[h].epoch, fresh |-> key \notin DOMAIN store]]
    /\ UNCHANGED <<now, tier>>

\* req.json() resolved: 400 on an invalid body, else the handler suspends at the query
AfterJson(h) ==
    /\ pc[h] = "json"
    /\ \E valid \in BOOLEAN :
          /\ pc' = [pc EXCEPT ![h] = IF valid THEN "db" ELSE "done"]
          /\ req' = [req EXCEPT ![h].status = IF valid THEN 0 ELSE 400]
    /\ UNCHANGED <<now, store, last, hist, solo, swept, unswept, reborn, calls, tier>>

\* the resume query resolved: 404, 403, 422, or the handler suspends at the model call
AfterDb(h) ==
    /\ pc[h] = "db"
    /\ \E status \in {0, 404, 403, 422} :
          /\ pc' = [pc EXCEPT ![h] = IF status = 0 THEN "ai" ELSE "done"]
          /\ req' = [req EXCEPT ![h].status = status]
    /\ UNCHANGED <<now, store, last, hist, solo, swept, unswept, reborn, calls, tier>>

\* generateContentStream resolved, or threw: the streamed 200, or 500
AfterAi(h) ==
    /\ pc[h] = "ai"
    /\ \E status \in {200, 500} : req' = [req EXCEPT ![h].status = status]
    /\ pc' = [pc EXCEPT ![h] = "done"]
    /\ UNCHANGED <<now, store, last, hist, solo, swept, unswept, reborn, calls, tier>>

\* an awaited promise rejected (auth(), req.json() on a body that is not JSON, the
\* resume query): the catch block answers 500; a handler still at auth() has not
\* called checkRateLimit and does not call it
Rejected(h) ==
    /\ pc[h] \in {"auth", "json", "db"}
    /\ pc' = [pc EXCEPT ![h] = "done"]
    /\ req' = [req EXCEPT ![h].status = 500]
    /\ UNCHANGED <<now, store, last, hist, solo, swept, unswept, reborn, calls, tier>>

\* the response has been sent
Finish(h) ==
    /\ pc[h] = "done"
    /\ pc' = [pc EXCEPT ![h] = "idle"]
    /\ req' = [req EXCEPT ![h] = Idle]
    /\ UNCHANGED <<now, store, last, hist, solo, swept, unswept, reborn, calls, tier>>

TickRoutes ==
    /\ \E t \in RouteInstants : t > now /\ now' = t
    /\ UNCHANGED <<store, last, hist, solo, swept, unswept, reborn, calls, tier, pc, req>>

NextRoutes ==
    \/ \E h \in Handlers :
          \/ Arrive(h) \/ Unauthorized(h) \/ RateLimit(h)
          \/ AfterJson(h) \/ AfterDb(h) \/ AfterAi(h) \/ Rejected(h) \/ Finish(h)
    \/ TickRoutes
    \/ Sweep

SpecRoutes == InitRoutes /\ [][NextRoutes]_vars

\* handlers that have called checkRateLimit
Decided(h) == "key" \in DOMAIN req[h]

\* C6: of the handlers that run checkRateLimit for one key at one instant, no two are
\* allowed after seeing the same number of timestamps in the window; with one slot
\* left, at most one of them is allowed
C6_OneSlotOneWinner ==
    \A h1 \in Handlers : \A h2 \in Handlers \ {h1} :
        ( /\ Decided(h1) /\ Decided(h2)
          /\ req[h1].key = req[h2].key
          /\ req[h1].at = req[h2].at
          /\ req[h1].path = "allow" /\ req[h2].path = "allow" )
        => req[h1].seen # req[h2].seen

\* two handlers were both suspended at auth() with one slot left under "ai"; one saw
\* 4 timestamps and was allowed, the other saw 5 and was denied
C6_Witness ==
    \E h1 \in Handlers : \E h2 \in Handlers \ {h1} :
        /\ Decided(h1) /\ Decided(h2)
        /\ req[h1].key = req[h2].key
        /\ req[h1].at = req[h2].at
        /\ req[h1].epoch = 4 /\ req[h2].epoch = 4
        /\ req[h1].path = "allow" /\ req[h1].seen = RATE_LIMITS.AI.max - 1
        /\ req[h2].path = "limit" /\ req[h2].seen = RATE_LIMITS.AI.max
        /\ req[h2].status = 429

\* C7: a decision leaves the entry it mutated stored under its key and leaves every
\* other entry alone; for a key that is not in the Map (never seen, or deleted by the
\* sweeper) the entry afterwards holds nothing but this decision; every other step
\* only deletes entries
C7_OneLiveRecordPerKey ==
    [][IF calls' # calls
       THEN LET key == last'.key IN
            /\ key \in DOMAIN store'
            /\ \A k \in DOMAIN store' \ {key} : k \in DOMAIN store /\ store'[k] = store[k]
            /\ \A k \in DOMAIN store : k \in DOMAIN store'
            /\ key \notin DOMAIN store =>
                  /\ \A i \in DOMAIN store'[key].timestamps : store'[key].timestamps[i] = now
                  /\ "blocked_until" \in DOMAIN store'[key] =>
                        store'[key].blocked_until = now + last'.config.windowSec * 1000
            /\ key \in DOMAIN store =>
                  \A i \in DOMAIN store'[key].timestamps :
                      \/ store'[key].timestamps[i] = now
                      \/ \E j \in DOMAIN store[key].timestamps :
                            store'[key].timestamps[i] = store[key].timestamps[j]
       ELSE \A k \in DOMAIN store' : k \in DOMAIN store /\ store'[k] = store[k]
    ]_vars

\* the sweeper deleted the entry of a key while a handler for that key was in flight;
\* a decision for the key has then started from a new entry
C7_Witness ==
    \E h1 \in Handlers : \E h2 \in Handlers \ {h1} :
        /\ pc[h1] = "auth" /\ UserTruthy(req[h1].session) /\ req[h1].epoch < calls
        /\ Decided(h2) /\ req[h2].fresh /\ req[h2].path = "allow" /\ req[h2].at = now
        /\ req[h2].epoch >= 1
        /\ now >= RetentionMs
        /\ \E w \in DOMAIN hist : Len(hist[w]) >= 2 /\ hist[w][1].t = 0
        /\ store[req[h2].key].timestamps = <<now>>

----------------------------------------------------------------------------
(* SpecSweep: one identity under a registry tier, clock advances and sweeper runs; *)
(* the identity makes no request once the clock has reached its last instant       *)

SweepInstants == {0, 61000, 400000, 401000, 800000}

\* the instant from which the identity is silent
Silence == CHOOSE t \in SweepInstants : \A u \in SweepInstants : u <= t

SweepTiers == TierNames

SweepIdentity == "idle"

SweepCaller == Who(SweepIdentity, RATE_LIMITS[tier])

SweepKey == KeyOf(SweepIdentity, RATE_LIMITS[tier])

InitSweep ==
    /\ now = 0
    /\ tier \in SweepTiers
    /\ store = <<>>
    /\ last = NoRequest
    /\ hist = <<>>
    /\ solo = <<>>
    /\ swept = NoSweep
    /\ unswept = <<>>
    /\ reborn = <<>>
    /\ calls = 0
    /\ pc = <<>>
    /\ req = <<>>

SweepCall ==
    /\ calls < MaxSweepCalls
    /\ now < Silence
    /\ Decide(SweepIdentity, RATE_LIMITS[tier])
    /\ UNCHANGED <<now, tier, pc, req>>

TickSweep ==
    /\ \E t \in SweepInstants : t > now /\ now' = t
    /\ UNCHANGED <<store, last, hist, solo, swept, unswept, reborn, calls, tier, pc, req>>

\* the setInterval callback runs, and the run is recorded
SweepRun ==
    /\ SweepMaps
    /\ swept' = [ran |-> TRUE, at |-> now, before |-> store, after |-> store']

NextSweep == SweepCall \/ TickSweep \/ SweepRun

SpecSweep == InitSweep /\ [][NextSweep]_vars

\* the entries of Map st that a sweeper run at t removes when "no recent timestamp"
\* means no timestamp of age < ageMs
Removable(st, t, ageMs) ==
    {k \in DOMAIN st :
        /\ \A i \in DOMAIN st[k].timestamps : t - st[k].timestamps[i] >= ageMs
        /\ ("blocked_until" \notin DOMAIN st[k] \/ st[k].blocked_until < t)}

\* the sweeper run removed exactly the entries in gone and left the others as they were
RemovedExactly(gone) ==
    /\ DOMAIN swept.after = DOMAIN swept.before \ gone
    /\ \A k \in DOMAIN swept.after : swept.after[k] = swept.before[k]

\* C11 as claimed: a sweeper run removes exactly the entries with no timestamp of age
\* < the tier's windowSeconds and with blockedUntil unset or in the past
C11_AsClaimed ==
    swept.ran =>
        RemovedExactly(Removable(swept.before, swept.at, RATE_LIMITS[tier].windowSec * 1000))

\* C11 amended: a sweeper run removes exactly the entries with no timestamp of age
\* < 300 seconds, whatever the tier's window, and with blockedUntil unset or in the
\* past, and keeps every other entry as it was
C11_SweepRemovesExpired ==
    swept.ran => RemovedExactly(Removable(swept.before, swept.at, 300 * 1000))

\* a sweeper run removed an entry that had been blocked and whose timestamps were
\* 400 seconds old
C11_Witness ==
    /\ swept.ran
    /\ swept.at = 400000
    /\ SweepKey \in DOMAIN swept.before
    /\ "blocked_until" \in DOMAIN swept.before[SweepKey]
    /\ Len(swept.before[SweepKey].timestamps) = RATE_LIMITS.AI.max
    /\ SweepKey \notin DOMAIN swept.after

\* the identity's single request so far was made at instant 0 and was allowed
OnlyRequestAtZero ==
    /\ calls = 1
    /\ HistOf(SweepCaller)[1].t = 0
    /\ HistOf(SweepCaller)[1].path = "allow"

\* the identity made two requests, at 0 and at 401 s, the first was allowed, and the
\* latest sweeper run took place at 400 s, between the two
IdleThenBack ==
    /\ calls = 2
    /\ HistOf(SweepCaller)[1].t = 0
    /\ HistOf(SweepCaller)[1].path = "allow"
    /\ HistOf(SweepCaller)[2].t = 401000
    /\ swept.ran /\ swept.at = 400000

\* C12: for an identity whose only request was allowed at 0 under a 60 s window, a
\* sweeper run at 400 s removes its record from the store; a request at 401 s is then
\* allowed and leaves a record with exactly the one timestamp 401 s, the record a call
\* on an empty store leaves
C12_IdleReclaimedThenFresh ==
    /\ (OnlyRequestAtZero /\ swept.ran /\ swept.at = 400000) =>
          /\ SweepKey \notin DOMAIN swept.after
          /\ SweepKey \notin DOMAIN store
    /\ IdleThenBack =>
          /\ last.res = Null
          /\ last.path = "allow"
          /\ store[SweepKey] = [timestamps |-> <<401000>>]
          /\ store = checkRateLimit(<<>>, SweepIdentity, RATE_LIMITS[tier], 401000).store

\* the idle identity came back at 401 s after the run at 400 s had removed its record
C12_Witness ==
    /\ IdleThenBack
    /\ now = 401000
    /\ SweepKey \notin DOMAIN swept.after
    /\ Len(store[SweepKey].timestamps) = 1

\* a sweeper run removed no entry with a timestamp inside the tier's window or with a
\* block still in force
KeepsRelevant ==
    swept.ran =>
        \A k \in DOMAIN swept.before \ DOMAIN swept.after :
            /\ \A i \in DOMAIN swept.before[k].timestamps :
                  swept.at - swept.before[k].timestamps[i] >= WindowMs(RATE_LIMITS[tier])
            /\ "blocked_until" \in DOMAIN swept.before[k] =>
                  swept.at >= swept.before[k].blocked_until

\* C13: under each of the six registry tiers, and wherever the sweeper runs fall, every
\* call returns the result (null, or the 429 with its retryAfter and headers) that the
\* same call returns in the run where the sweeper never runs, and no sweeper run removes
\* an entry with a timestamp inside its window or with a block still in force
C13_SweepInvisible ==
    /\ last # NoRequest => last.res = last.unsweptRes
    /\ KeepsRelevant

\* after a sweeper run removed the entry that the never-swept Map still holds, calls
\* were allowed up to the limit and the next one was denied, in both runs
C13_Witness ==
    /\ tier = "AI"
    /\ swept.ran /\ SweepKey \in DOMAIN swept.before /\ SweepKey \notin DOMAIN swept.after
    /\ last # NoRequest /\ last.t > swept.at
    /\ last.path = "limit"
    /\ last.res.body.retryAfter = 60
    /\ Len(unswept[SweepKey].timestamps) = RATE_LIMITS.AI.max

\* the timer fires again and again whatever the requests do, and Date.now() advances
SpecSweepFair == InitSweep /\ [][NextSweep]_vars /\ WF_vars(SweepRun) /\ WF_vars(TickSweep)

\* C14: a sweeper run is enabled in every state, whether or not a request arrives, and
\* once the identity has stopped making requests the store eventually holds none of
\* its records, and stays that way
C14_AbandonedEventuallyRemoved ==
    /\ [](ENABLED SweepRun)
    /\ <>[](DOMAIN store = {})

\* the identity made requests, fell silent, and a sweeper run at the last instant
\* removed its record
C14_Witness ==
    /\ calls >= 1
    /\ now = Silence
    /\ swept.ran /\ swept.at = Silence
    /\ SweepKey \in DOMAIN swept.before
    /\ DOMAIN store = {}

----------------------------------------------------------------------------
(* Spec again: an elapsed window against a never-seen identity *)

\* C15: a call for a key whose entry has no timestamp younger than a full window and
\* no block in force returns what it returns in the run where that entry is discarded
\* just before the call (a never-seen identity), and so does every later call; pruning
\* such an entry leaves no timestamp, and pruning again changes nothing
C15_ElapsedIsFresh ==
    /\ last # NoRequest => last.res = last.rebornRes
    /\ \A c \in Callers :
          LET key  == KeyOf(c[1], c[2])
              once == Slide(store[key].timestamps, now, WindowMs(c[2]))
          IN  (key \in DOMAIN store /\ Elapsed(store, key, c[2], now)) =>
                  /\ ~IsBlocked(store[key], now)
                  /\ once = NewEntry.timestamps
                  /\ Slide(once, now, WindowMs(c[2])) = once

\* a caller that had been blocked called again exactly one window later and was
\* allowed, as in the run where its entry had been discarded; the real entry still
\* carries the ended block, the other has never had one
C15_Witness ==
    /\ last # NoRequest
    /\ last.t = 60000
    /\ last.path = "allow"
    /\ last.rebornRes = Null
    /\ "blocked_until" \in DOMAIN store[last.key]
    /\ store[last.key].blocked_until = 60000
    /\ "blocked_until" \notin DOMAIN reborn[last.key]
    /\ store[last.key].timestamps = reborn[last.key].timestamps

----------------------------------------------------------------------------
(* SpecKey: two requesters, each with its headers and session, derive their keys *)

Requesters == {1, 2}

\* values of x-forwarded-for as request.headers.get returns them (null: no such header)
ForwardedValues ==
    { NoHeader, <<>>, <<"7">>, <<"7", ",", " ", "8">>, <<"7", " ", ",", "8">>,
      <<"7", HT, ",", "8">>, <<"7", NBSP, VT, ",", "8">>,
      <<",", "8">>, <<"u", "1", ":", "7">> }

\* values of x-real-ip
RealIpValues == { NoHeader, <<>>, <<"9">> }

\* the Headers object holding the headers that are present
HeadersOf(forwarded, real) ==
    [n \in {m \in {"x-forwarded-for"} : forwarded # NoHeader}
           \cup {m \in {"x-real-ip"} : real # NoHeader}
        |-> IF n = "x-forwarded-for" THEN forwarded ELSE real]

KeyInputs ==
    { [request |-> [headers |-> HeadersOf(f, r)], userId |-> u] :
        f \in ForwardedValues, r \in RealIpValues, u \in Sessions }

InitKey ==
    /\ now = 0
    /\ tier = "AI"
    /\ store = <<>>
    /\ last = NoRequest
    /\ hist = <<>>
    /\ solo = <<>>
    /\ swept = NoSweep
    /\ unswept = <<>>
    /\ reborn = <<>>
    /\ calls = 0
    /\ pc = [h \in Requesters |-> "start"]
    /\ req \in [Requesters -> KeyInputs]

\* requester h evaluates getRateLimitKey(request, userId)
Derive(h) ==
    /\ pc[h] = "start"
    /\ pc' = [pc EXCEPT ![h] = "done"]
    /\ req' = [req EXCEPT ![h] =
                  [request |-> req[h].request, userId |-> req[h].userId,
                   ip  |-> getClientIP(req[h].request),
                   key |-> getRateLimitKey(req[h].request, req[h].userId)]]
    /\ UNCHANGED <<now, tier, store, last, hist, solo, swept, unswept, reborn, calls>>

NextKey == \E h \in Requesters : Derive(h)

SpecKey == InitKey /\ [][NextKey]_vars

Derived(h) == pc[h] = "done"

Present(request, name) == name \in DOMAIN request.headers

NonEmpty(request, name) == Present(request, name) /\ request.headers[name] # <<>>

\* "<identifier>:<origin>" with an identifier, the origin alone without
KeyFrom(userId, origin) == IF ~UserTruthy(userId) THEN origin ELSE Str(userId) \o ":" \o origin

\* C16 as claimed: the origin is the first entry of x-forwarded-for, trimmed, if that
\* header is present, otherwise x-real-ip, otherwise "unknown"
C16_AsClaimed ==
    \A h \in Requesters :
        Derived(h) =>
            LET r == req[h].request
                origin == IF Present(r, "x-forwarded-for")
                              THEN Str(Trim(FirstField(r.headers["x-forwarded-for"])))
                          ELSE IF Present(r, "x-real-ip") THEN Str(r.headers["x-real-ip"])
                          ELSE "unknown"
            IN  req[h].key = KeyFrom(req[h].userId, origin)

\* C16 amended: the key is "<identifier>:<origin>" with an authenticated identifier and
\* the origin alone without one, where the origin is the first comma-separated entry of
\* x-forwarded-for, trimmed, if that header is present and not empty, otherwise
\* x-real-ip if present and not empty, otherwise "unknown"; the store is left untouched
C16_KeyDerivation ==
    /\ store = <<>>
    /\ \A h \in Requesters :
        Derived(h) =>
            LET r == req[h].request
                origin == IF NonEmpty(r, "x-forwarded-for")
                              THEN Str(Trim(FirstField(r.headers["x-forwarded-for"])))
                          ELSE IF NonEmpty(r, "x-real-ip") THEN Str(r.headers["x-real-ip"])
                          ELSE "unknown"
            IN  req[h].key = KeyFrom(req[h].userId, origin)

\* one requester with a session sent "7<tab>,8" and got "u1:7"; the other, without a
\* session, sent an empty x-forwarded-for beside x-real-ip "9" and got "9"
C16_Witness ==
    /\ Derived(1) /\ Derived(2)
    /\ req[1].userId = <<"u", "1">>
    /\ HeaderGet(req[1].request, "x-forwarded-for") = <<"7", HT, ",", "8">>
    /\ req[1].key = "u1:7"
    /\ req[2].userId = NoUser
    /\ HeaderGet(req[2].request, "x-forwarded-for") = <<>>
    /\ HeaderGet(req[2].request, "x-real-ip") = <<"9">>
    /\ req[2].key = "9"

\* C17 as claimed: every derived key is usable: its origin component is a non-empty
\* string, so the key holds an identifier or an origin
C17_AsClaimed ==
    \A h \in Requesters :
        Derived(h) =>
            /\ req[h].ip # ""
            /\ req[h].key # ""
            /\ UserTruthy(req[h].userId) => req[h].key # Str(req[h].userId) \o ":"

\* the identifier of a requester; null and "" both stand for its absence
IdentifierOf(userId) == IF UserTruthy(userId) THEN userId ELSE NoUser

\* C18 as claimed: two requesters that differ in identifier (or its absence) or in
\* origin never derive the same key
C18_AsClaimed ==
    \A h1 \in Requesters : \A h2 \in Requesters :
        (Derived(h1) /\ Derived(h2)
            /\ <<IdentifierOf(req[h1].userId), req[h1].ip>>
                   # <<IdentifierOf(req[h2].userId), req[h2].ip>>)
        => req[h1].key # req[h2].key

----------------------------------------------------------------------------
(* SpecBurst again: the tier registry *)

\* the tiers with their maximum and window, as listed
ListedTiers ==
    { <<"AI", 5, 60>>, <<"UPLOAD", 10, 60>>, <<"CRUD", 30, 60>>,
      <<"READ", 60, 60>>, <<"ADMIN", 20, 60>>, <<"WEBHOOK", 100, 60>> }

\* C19: the registry holds exactly the six listed tiers with the listed maximum and
\* window, all positive integers, under pairwise distinct class names, and every
\* decision, before and after any other decision or sweeper run, is taken under one of
\* them with these values
C19_RegistryFixed ==
    /\ Cardinality(TierNames) = 6
    /\ {<<n, RATE_LIMITS[n].max, RATE_LIMITS[n].windowSec>> : n \in TierNames} = ListedTiers
    /\ \A n \in TierNames :
          /\ RATE_LIMITS[n].max \in Nat \ {0}
          /\ RATE_LIMITS[n].windowSec \in Nat \ {0}
    /\ \A n \in TierNames : \A m \in TierNames \ {n} :
          RATE_LIMITS[n].prefix # RATE_LIMITS[m].prefix
    /\ last # NoRequest =>
          \E n \in TierNames :
              /\ last.config = RATE_LIMITS[n]
              /\ <<n, last.config.max, last.config.windowSec>> \in ListedTiers

\* under ADMIN the 21st request of the burst was denied, after requests under the
\* other five tiers, each still judged by its own listed maximum
C19_Witness ==
    /\ tier = "ADMIN"
    /\ Len(HistOf(BurstCaller)) = 21
    /\ last.path = "limit"
    /\ last.config = [max |-> 20, windowSec |-> 60, prefix |-> "admin"]
    /\ \A n \in TierNames \ {tier} : Who(BurstIdentity, RATE_LIMITS[n]) \in DOMAIN hist

----------------------------------------------------------------------------
(* SpecGuard: the handlers of the thirteen rate-limited routes: the five AI          *)
(* endpoints (AI), POST resumes/upload (UPLOAD), GET admin/analytics (ADMIN), GET    *)
(* applications and GET resumes (READ), POST, PATCH and DELETE applications and POST *)
(* resumes/create (CRUD), serving requests of one user concurrently at one instant   *)

\* the exported handlers that pass RATE_LIMITS.AI to checkRateLimit
Endpoints ==
    {"POST /api/analyze", "POST /api/cover-letter/generate",
     "POST /api/interview/generate", "POST /api/interview/feedback",
     "POST /api/company/enrich"}

GuardTiers == {"AI", "UPLOAD", "ADMIN", "READ", "CRUD"}

\* the exported handlers that pass RATE_LIMITS.<tier> to checkRateLimit
GuardRoutes(t) ==
    CASE t = "AI"     -> Endpoints
      [] t = "UPLOAD" -> {"POST /api/resumes/upload"}
      [] t = "ADMIN"  -> {"GET /api/admin/analytics"}
      [] t = "READ"   -> {"GET /api/applications", "GET /api/resumes"}
      [] t = "CRUD"   -> {"POST /api/applications", "PATCH /api/applications",
                          "DELETE /api/applications", "POST /api/resumes/create"}

\* the protected operation a handler has started when it is suspended at a stage
Op(stage) ==
    CASE stage \in {"insert", "query", "select", "list", "create", "update",
                    "delete", "build", "existing", "cached", "save"} -> {"db"}
      [] stage = "ai"                         -> {"ai"}
      [] stage = "storage"                    -> {"storage"}
      [] OTHER                                -> {}

GuardIdle ==
    [status |-> 0, session |-> NoUser, decided |-> FALSE, rl |-> Null,
     response |-> Null, started |-> {}, n |-> 0, route |-> "none"]

\* handlers that have arrived with a session and have not reached checkRateLimit yet
Waiting ==
    {h \in Handlers : pc[h] \in {"auth", "clerk", "user"} /\ UserTruthy(req[h].session)}

InitGuard ==
    /\ now = 0
    /\ tier \in GuardTiers
    /\ store = <<>>
    /\ last = NoRequest
    /\ hist = <<>>
    /\ solo = <<>>
    /\ swept = NoSweep
    /\ unswept = <<>>
    /\ reborn = <<>>
    /\ calls = 0
    /\ pc = [h \in Handlers |-> "idle"]
    /\ req = [h \in Handlers |-> GuardIdle]

\* the handler is suspended at stage with the given status so far
Enter(h, stage, status) ==
    /\ pc' = [pc EXCEPT ![h] = stage]
    /\ req' = [req EXCEPT ![h].status = status,
                          ![h].started = req[h].started \cup Op(stage)]
    /\ UNCHANGED <<now, store, last, hist, solo, swept, unswept, reborn, calls, tier>>

\* the handler returns a response with the given status
Return(h, status) ==
    /\ pc' = [pc EXCEPT ![h] = "done"]
    /\ req' = [req EXCEPT ![h].status = status]
    /\ UNCHANGED <<now, store, last, hist, solo, swept, unswept, reborn, calls, tier>>

\* the route handler is called; it suspends at await auth()
GuardArrive(h) ==
    /\ pc[h] = "idle"
    /\ \E session \in Sessions, route \in GuardRoutes(tier) :
          /\ UserTruthy(session) =>
                calls + Cardinality(Waiting) < RATE_LIMITS[tier].max + MaxExtra
          /\ req' = [req EXCEPT ![h] = [GuardIdle EXCEPT !.session = session,
                                                         !.route = route]]
    /\ pc' = [pc EXCEPT ![h] = "auth"]
    /\ UNCHANGED <<now, store, last, hist, solo, swept, unswept, reborn, calls, tier>>

\* mutant: the userId is not tested
Authenticated_any(session) == TRUE

\* userId is truthy: !userId is false
Authenticated(session) == UserTruthy(session)

\* if (!userId) return 401
GuardUnauthorized(h) ==
    /\ pc[h] = "auth"
    /\ ~Authenticated(req[h].session)
    /\ Return(h, 401)

\* mutant: the result of checkRateLimit is not looked at
ReturnIfDenied_dropped(rl, next) == [pc |-> next, response |-> Null]

\* if (rl) return rl;
ReturnIfDenied(rl, next) ==
    IF rl # Null THEN [pc |-> "done", response |-> rl] ELSE [pc |-> next, response |-> Null]

\* const rl = checkRateLimit(getRateLimitKey(req, userId), RATE_LIMITS.<tier>);
\* if (rl) return rl; otherwise the handler goes on to its next await; the request
\* carries no proxy header, so the origin is "unknown"
RateLimited(h, next) ==
    /\ LET identifier == getRateLimitKey([headers |-> <<>>], req[h].session)
           out        == ReturnIfDenied(last'.res, next)
       IN  /\ Decide(identifier, RATE_LIMITS[tier])
           /\ pc' = [pc EXCEPT ![h] = out.pc]
           /\ req' = [req EXCEPT ![h].decided = TRUE,
                                 ![h].rl = last'.res,
                                 ![h].response = out.response,
                                 ![h].status = IF out.response = Null THEN 0
                                               ELSE out.response.status,
                                 ![h].started = req[h].started \cup Op(out.pc)]
    /\ UNCHANGED <<now, tier>>

\* resumes/upload: auth() resolved with a user
UploadAuthed(h) ==
    /\ tier = "UPLOAD" /\ pc[h] = "auth" /\ Authenticated(req[h].session)
    /\ RateLimited(h, "form")

\* req.formData() resolved: 400 on a missing or unacceptable file, or the file is read
UploadForm(h) ==
    /\ pc[h] = "form"
    /\ \E valid \in BOOLEAN : IF valid THEN Enter(h, "buffer", 0) ELSE Return(h, 400)

\* file.arrayBuffer() resolved: the upload to storage is started
UploadBuffer(h) ==
    /\ pc[h] = "buffer"
    /\ Enter(h, "storage", 0)

\* the storage upload resolved: 500 on uploadError, or the PDF is parsed
UploadStored(h) ==
    /\ pc[h] = "storage"
    /\ \E uploadError \in BOOLEAN :
          IF uploadError THEN Return(h, 500) ELSE Enter(h, "parse", 0)

\* parsePDF resolved: 422 without text, or the row is inserted
UploadParsed(h) ==
    /\ pc[h] = "parse"
    /\ \E text \in BOOLEAN : IF text THEN Enter(h, "insert", 0) ELSE Return(h, 422)

\* the insert resolved: 201
UploadInserted(h) ==
    /\ req[h].route = "POST /api/resumes/upload" /\ pc[h] = "insert"
    /\ Return(h, 201)

\* admin/analytics: auth() resolved with a user; the handler awaits clerkClient()
AdminAuthed(h) ==
    /\ tier = "ADMIN" /\ pc[h] = "auth" /\ Authenticated(req[h].session)
    /\ Enter(h, "clerk", 0)

\* clerkClient() resolved; the handler awaits client.users.getUser(userId)
AdminClient(h) ==
    /\ pc[h] = "clerk"
    /\ Enter(h, "user", 0)

\* getUser resolved: 403 unless the role is admin, else the rate limit and the queries
AdminRole(h) ==
    /\ pc[h] = "user"
    /\ \E role \in {"admin", "student"} :
          IF role # "admin" THEN Return(h, 403) ELSE RateLimited(h, "query")

\* one of the five db.execute queries resolved: the next one is issued, or 200
AdminQuery(h) ==
    /\ pc[h] = "query"
    /\ IF req[h].n < 4
       THEN /\ req' = [req EXCEPT ![h].n = req[h].n + 1]
            /\ UNCHANGED <<now, store, last, hist, solo, swept, unswept, reborn,
                           calls, tier, pc>>
       ELSE Return(h, 200)

\* GET applications: auth() resolved with a user
AppsAuthed(h) ==
    /\ req[h].route = "GET /api/applications"
    /\ tier = "READ" /\ pc[h] = "auth" /\ Authenticated(req[h].session)
    /\ RateLimited(h, "select")

\* the select of the user's applications resolved: 200
AppsSelected(h) ==
    /\ req[h].route = "GET /api/applications" /\ pc[h] = "select"
    /\ Return(h, 200)

\* GET resumes: auth() resolved with a user
ResumesAuthed(h) ==
    /\ req[h].route = "GET /api/resumes"
    /\ pc[h] = "auth" /\ Authenticated(req[h].session)
    /\ RateLimited(h, "list")

\* the select of the user's resumes resolved: 200
ResumesSelected(h) ==
    /\ pc[h] = "list"
    /\ Return(h, 200)

\* POST applications: auth() resolved with a user
AppsPostAuthed(h) ==
    /\ req[h].route = "POST /api/applications"
    /\ pc[h] = "auth" /\ Authenticated(req[h].session)
    /\ RateLimited(h, "body")

\* PATCH applications: auth() resolved with a user
AppsPatchAuthed(h) ==
    /\ req[h].route = "PATCH /api/applications"
    /\ pc[h] = "auth" /\ Authenticated(req[h].session)
    /\ RateLimited(h, "body")

\* DELETE applications: auth() resolved with a user
AppsDeleteAuthed(h) ==
    /\ req[h].route = "DELETE /api/applications"
    /\ pc[h] = "auth" /\ Authenticated(req[h].session)
    /\ RateLimited(h, "body")

\* POST resumes/create: auth() resolved with a user
CreateAuthed(h) ==
    /\ req[h].route = "POST /api/resumes/create"
    /\ pc[h] = "auth" /\ Authenticated(req[h].session)
    /\ RateLimited(h, "body")

\* POST applications: req.json() resolved: 400 when validation fails, or the insert
AppsPostBody(h) ==
    /\ req[h].route = "POST /api/applications" /\ pc[h] = "body"
    /\ \E valid \in BOOLEAN : IF valid THEN Enter(h, "create", 0) ELSE Return(h, 400)

\* the insert resolved: 201
AppsPostInserted(h) ==
    /\ pc[h] = "create"
    /\ Return(h, 201)

\* PATCH applications: req.json() resolved: 400 when validation fails, or the update
AppsPatchBody(h) ==
    /\ req[h].route = "PATCH /api/applications" /\ pc[h] = "body"
    /\ \E valid \in BOOLEAN : IF valid THEN Enter(h, "update", 0) ELSE Return(h, 400)

\* the update resolved: 404 when no row of the user matched, else 200
AppsPatchUpdated(h) ==
    /\ pc[h] = "update"
    /\ \E updated \in BOOLEAN : IF updated THEN Return(h, 200) ELSE Return(h, 404)

\* DELETE applications: req.json() resolved: 400 when validation fails, or the delete
AppsDeleteBody(h) ==
    /\ req[h].route = "DELETE /api/applications" /\ pc[h] = "body"
    /\ \E valid \in BOOLEAN : IF valid THEN Enter(h, "delete", 0) ELSE Return(h, 400)

\* the delete resolved: 404 when no row of the user matched, else 200
AppsDeleteDeleted(h) ==
    /\ pc[h] = "delete"
    /\ \E deleted \in BOOLEAN : IF deleted THEN Return(h, 200) ELSE Return(h, 404)

\* POST resumes/create: req.json() resolved: 400 when validation fails, or the insert
CreateBody(h) ==
    /\ req[h].route = "POST /api/resumes/create" /\ pc[h] = "body"
    /\ \E valid \in BOOLEAN : IF valid THEN Enter(h, "build", 0) ELSE Return(h, 400)

\* the insert resolved: 201
CreateInserted(h) ==
    /\ pc[h] = "build"
    /\ Return(h, 201)

\* the configuration each endpoint passes to checkRateLimit
AnalyzeConfig == RATE_LIMITS.AI

CoverLetterConfig == RATE_LIMITS.AI

InterviewGenerateConfig == RATE_LIMITS.AI

InterviewFeedbackConfig == RATE_LIMITS.AI

\* mutant: company/enrich counts under the CRUD tier
EnrichConfig_own == RATE_LIMITS.CRUD

EnrichConfig == RATE_LIMITS.AI

EndpointConfig(e) ==
    CASE e = "POST /api/analyze"               -> AnalyzeConfig
      [] e = "POST /api/cover-letter/generate" -> CoverLetterConfig
      [] e = "POST /api/interview/generate"    -> InterviewGenerateConfig
      [] e = "POST /api/interview/feedback"    -> InterviewFeedbackConfig
      [] e = "POST /api/company/enrich"        -> EnrichConfig

\* checkRateLimit(getRateLimitKey(req, userId), RATE_LIMITS.AI); if (rl) return rl;
\* otherwise the handler goes on to read the body
AiRateLimit(h) ==
    /\ req[h].route \in Endpoints
    /\ pc[h] = "auth"
    /\ UserTruthy(req[h].session)
    /\ LET identifier == getRateLimitKey([headers |-> <<>>], req[h].session)
           out        == ReturnIfDenied(last'.res, "json")
       IN  /\ Decide(identifier, EndpointConfig(req[h].route))
           /\ pc' = [pc EXCEPT ![h] = out.pc]
           /\ req' = [req EXCEPT ![h].decided = TRUE,
                                 ![h].rl = last'.res,
                                 ![h].response = out.response,
                                 ![h].status = IF out.response = Null THEN 0
                                               ELSE out.response.status]
    /\ UNCHANGED <<now, tier>>

\* handler h serves endpoint e and is suspended at stage
AiAt(h, e, stage) == req[h].route = e /\ pc[h] = stage

\* await req.json() resolved and validateInput ran: 400, or the handler goes on
AiBody(h, next) ==
    \E valid \in BOOLEAN : IF valid THEN Enter(h, next, 0) ELSE Return(h, 400)

\* analyze: req.json() resolved: 400, or the resume is queried
AnalyzeJson(h) ==
    /\ AiAt(h, "POST /api/analyze", "json")
    /\ AiBody(h, "select")

\* analyze: the resume query resolved: 404 without a row, 403 for a resume of another
\* user, 422 without parsed text, or the job description is inserted
AnalyzeSelected(h) ==
    /\ AiAt(h, "POST /api/analyze", "select")
    /\ \E status \in {0, 404, 403, 422} :
          IF status = 0 THEN Enter(h, "insert", 0) ELSE Return(h, status)

\* analyze: the job description is inserted: generateContent is called
AnalyzeInserted(h) ==
    /\ AiAt(h, "POST /api/analyze", "insert")
    /\ Enter(h, "ai", 0)

\* analyze: generateContent rejected: 503; it resolved: 502 when the response does not
\* parse, or the analysis is inserted
AnalyzeGenerated(h) ==
    /\ AiAt(h, "POST /api/analyze", "ai")
    /\ \E status \in {0, 503, 502} :
          IF status = 0 THEN Enter(h, "save", 0) ELSE Return(h, status)

\* analyze: the analysis is inserted: 200
AnalyzeSaved(h) ==
    /\ AiAt(h, "POST /api/analyze", "save")
    /\ Return(h, 200)

\* cover-letter/generate: req.json() resolved: 400, or the resume is queried
CoverLetterJson(h) ==
    /\ AiAt(h, "POST /api/cover-letter/generate", "json")
    /\ AiBody(h, "select")

\* cover-letter/generate: the resume query resolved: 404, 403, 422, or
\* generateContentStream is called
CoverLetterSelected(h) ==
    /\ AiAt(h, "POST /api/cover-letter/generate", "select")
    /\ \E status \in {0, 404, 403, 422} :
          IF status = 0 THEN Enter(h, "ai", 0) ELSE Return(h, status)

\* cover-letter/generate: generateContentStream resolved: the streamed 200
CoverLetterStreamed(h) ==
    /\ AiAt(h, "POST /api/cover-letter/generate", "ai")
    /\ Return(h, 200)

\* interview/generate: req.json() resolved: 400, or the analysis is queried
GenerateJson(h) ==
    /\ AiAt(h, "POST /api/interview/generate", "json")
    /\ AiBody(h, "select")

\* interview/generate: the analysis query resolved: 404, or the existing questions
\* are looked for
GenerateSelected(h) ==
    /\ AiAt(h, "POST /api/interview/generate", "select")
    /\ \E found \in BOOLEAN : IF found THEN Enter(h, "existing", 0) ELSE Return(h, 404)

\* interview/generate: the lookup resolved: with existing questions they are
\* selected, without generateContent is called
GenerateExisting(h) ==
    /\ AiAt(h, "POST /api/interview/generate", "existing")
    /\ \E existing \in BOOLEAN :
          IF existing THEN Enter(h, "cached", 0) ELSE Enter(h, "ai", 0)

\* interview/generate: the stored questions are selected: 200, fromCache
GenerateCached(h) ==
    /\ AiAt(h, "POST /api/interview/generate", "cached")
    /\ Return(h, 200)

\* interview/generate: generateContent rejected: 503; it resolved: 502 when the
\* response is not a JSON array; 500 from the outer catch when building the rows
\* throws (an element that is null, q.question) or db.insert(...).values([]) throws;
\* or the questions are inserted
GenerateGenerated(h) ==
    /\ AiAt(h, "POST /api/interview/generate", "ai")
    /\ \E status \in {0, 503, 502, 500} :
          IF status = 0 THEN Enter(h, "save", 0) ELSE Return(h, status)

\* interview/generate: the questions are inserted: 200
GenerateSaved(h) ==
    /\ AiAt(h, "POST /api/interview/generate", "save")
    /\ Return(h, 200)

\* interview/feedback: req.json() resolved: 400, or the question is queried
FeedbackJson(h) ==
    /\ AiAt(h, "POST /api/interview/feedback", "json")
    /\ AiBody(h, "select")

\* interview/feedback: the question query resolved: 404, or generateContent is called
FeedbackSelected(h) ==
    /\ AiAt(h, "POST /api/interview/feedback", "select")
    /\ \E found \in BOOLEAN : IF found THEN Enter(h, "ai", 0) ELSE Return(h, 404)

\* interview/feedback: generateContent rejected: 503; it resolved: 502 when the
\* response does not parse or result.score cannot be set; 500 from the outer catch
\* when building feedbackText throws (a field that is an object with no callable
\* toString); or the question is updated
FeedbackGenerated(h) ==
    /\ AiAt(h, "POST /api/interview/feedback", "ai")
    /\ \E status \in {0, 503, 502, 500} :
          IF status = 0 THEN Enter(h, "save", 0) ELSE Return(h, status)

\* interview/feedback: the question is updated: 200
FeedbackSaved(h) ==
    /\ AiAt(h, "POST /api/interview/feedback", "save")
    /\ Return(h, 200)

\* company/enrich: req.json() resolved: 400, or the cache is queried
EnrichJson(h) ==
    /\ AiAt(h, "POST /api/company/enrich", "json")
    /\ AiBody(h, "select")

\* company/enrich: the cache query resolved: 200 with a row younger than thirty days;
\* otherwise NewsAPI is fetched when NEWS_API_KEY is set, else generateContent is called
EnrichSelected(h) ==
    /\ AiAt(h, "POST /api/company/enrich", "select")
    /\ \E fresh \in BOOLEAN, newsApiKey \in BOOLEAN :
          IF fresh THEN Return(h, 200)
          ELSE IF newsApiKey THEN Enter(h, "news", 0) ELSE Enter(h, "ai", 0)

\* company/enrich: the fetch resolved with newsRes.ok: its body is read; it resolved
\* otherwise, or rejected and was caught: generateContent is called
EnrichNews(h) ==
    /\ AiAt(h, "POST /api/company/enrich", "news")
    /\ \E ok \in BOOLEAN : IF ok THEN Enter(h, "newsjson", 0) ELSE Enter(h, "ai", 0)

\* company/enrich: newsRes.json() resolved, or rejected and was caught:
\* generateContent is called
EnrichNewsJson(h) ==
    /\ AiAt(h, "POST /api/company/enrich", "newsjson")
    /\ Enter(h, "ai", 0)

\* company/enrich: generateContent rejected or its text did not parse, and was
\* caught, or it resolved: the row is updated or inserted; 500 from the outer catch
\* when the text parsed to null and building companyData throws (profile.industry)
EnrichGenerated(h) ==
    /\ AiAt(h, "POST /api/company/enrich", "ai")
    /\ \E profile \in {"object", "null"} :
          IF profile = "null" THEN Return(h, 500) ELSE Enter(h, "save", 0)

\* company/enrich: the upsert resolved: 200
EnrichSaved(h) ==
    /\ AiAt(h, "POST /api/company/enrich", "save")
    /\ Return(h, 200)

\* the stages whose rejection reaches the handler's outer catch block
OuterCatch(e) ==
    {"auth", "json", "select", "insert", "existing", "cached", "save"}
        \cup (IF e = "POST /api/cover-letter/generate" THEN {"ai"} ELSE {})

\* an awaited call rejected outside an inner try: the catch block answers 500; a
\* handler still at auth() has not called checkRateLimit and does not call it
AiThrow(h) ==
    /\ req[h].route \in Endpoints
    /\ pc[h] \in OuterCatch(req[h].route)
    /\ Return(h, 500)

\* an awaited call rejected, auth() included: the catch block answers 500; a handler
\* still at auth(), clerkClient() or getUser() does not reach checkRateLimit
GuardThrow(h) ==
    /\ req[h].route \notin Endpoints
    /\ pc[h] \in {"auth", "form", "buffer", "storage", "parse", "insert", "clerk",
                  "user", "query", "select", "list", "body", "create", "update",
                  "delete", "build"}
    /\ Return(h, 500)

\* the response has been sent
GuardFinish(h) ==
    /\ pc[h] = "done"
    /\ pc' = [pc EXCEPT ![h] = "idle"]
    /\ req' = [req EXCEPT ![h] = GuardIdle]
    /\ UNCHANGED <<now, store, last, hist, solo, swept, unswept, reborn, calls, tier>>

NextGuard ==
    \/ \E h \in Handlers :
          \/ GuardArrive(h) \/ GuardUnauthorized(h) \/ GuardThrow(h) \/ GuardFinish(h)
          \/ AiRateLimit(h) \/ AiThrow(h)
          \/ AnalyzeJson(h) \/ AnalyzeSelected(h) \/ AnalyzeInserted(h)
          \/ AnalyzeGenerated(h) \/ AnalyzeSaved(h)
          \/ CoverLetterJson(h) \/ CoverLetterSelected(h) \/ CoverLetterStreamed(h)
          \/ GenerateJson(h) \/ GenerateSelected(h) \/ GenerateExisting(h)
          \/ GenerateCached(h) \/ GenerateGenerated(h) \/ GenerateSaved(h)
          \/ FeedbackJson(h) \/ FeedbackSelected(h) \/ FeedbackGenerated(h)
          \/ FeedbackSaved(h)
          \/ EnrichJson(h) \/ EnrichSelected(h) \/ EnrichNews(h) \/ EnrichNewsJson(h)
          \/ EnrichGenerated(h) \/ EnrichSaved(h)
          \/ UploadAuthed(h) \/ UploadForm(h) \/ UploadBuffer(h) \/ UploadStored(h)
          \/ UploadParsed(h) \/ UploadInserted(h)
          \/ AdminAuthed(h) \/ AdminClient(h) \/ AdminRole(h) \/ AdminQuery(h)
          \/ AppsAuthed(h) \/ AppsSelected(h)
          \/ ResumesAuthed(h) \/ ResumesSelected(h)
          \/ AppsPostAuthed(h) \/ AppsPostBody(h) \/ AppsPostInserted(h)
          \/ AppsPatchAuthed(h) \/ AppsPatchBody(h) \/ AppsPatchUpdated(h)
          \/ AppsDeleteAuthed(h) \/ AppsDeleteBody(h) \/ AppsDeleteDeleted(h)
          \/ CreateAuthed(h) \/ CreateBody(h) \/ CreateInserted(h)
    \/ Sweep

SpecGuard == InitGuard /\ [][NextGuard]_vars

\* C20: in each of the rate-limited routes, a handler whose call of checkRateLimit returned a
\* deny has returned: its response is that 429 result, it is suspended at no await,
\* and it has started no AI call, no database read or write and no storage upload
C20_DenyShortCircuits ==
    \A h \in Handlers :
        req[h].rl # Null =>
            /\ IsDenyResult(req[h].rl)
            /\ pc[h] = "done"
            /\ req[h].response = req[h].rl
            /\ req[h].status = 429
            /\ req[h].started = {}

\* under ADMIN, one handler's 21st request was denied and answered 429 with nothing
\* started, while the other handler, allowed before, is in the middle of its queries
C20_Witness ==
    \E h1 \in Handlers : \E h2 \in Handlers \ {h1} :
        /\ tier = "ADMIN"
        /\ calls = RATE_LIMITS.ADMIN.max + 1
        /\ pc[h1] = "done" /\ req[h1].status = 429
        /\ req[h1].response.body.retryAfter = 60
        /\ req[h1].started = {}
        /\ pc[h2] = "query" /\ req[h2].n = 2 /\ req[h2].started = {"db"}

----------------------------------------------------------------------------
(* Spec again: the effect of each path on the record *)

\* C21: a call denied on the blocked fast path leaves the whole Map as it was, the
\* record's timestamps and blocked_until included, so a retry during a block neither
\* extends nor shortens the block
C21_BlockedLeavesStore ==
    [][(calls' # calls /\ last'.path = "blocked") =>
          /\ store' = store
          /\ last'.key \in DOMAIN store
          /\ store'[last'.key].blocked_until = store[last'.key].blocked_until
          /\ store'[last'.key].timestamps = store[last'.key].timestamps]_vars

\* a caller was denied at the limit at 0 and retried twice during the block, at 1 s
\* and at 1.5 s; the block still ends at 60 s
C21_Witness ==
    \E w \in CallerIds :
        LET h == HistOf(w) IN
        /\ Len(h) = 4
        /\ h[2].path = "limit" /\ h[2].t = 0
        /\ h[3].path = "blocked" /\ h[3].t = 1000
        /\ h[4].path = "blocked" /\ h[4].t = 1500
        /\ last.path = "blocked" /\ last.t = 1500
        /\ store[last.key].blocked_until = 60000

\* the timestamps of key's entry that a call at the current instant keeps
Pruned(key, config) == SelectSeq(EntryBefore(key).timestamps, LAMBDA x : now - x < config.windowSec * 1000)

\* C22: a call that finds no block in force and at least max timestamps after pruning
\* is denied with retryAfter = windowSec, sets blocked_until to now + windowSec seconds
\* whatever the age of the oldest timestamp, and stores the pruned timestamps without
\* the current instant; and in every state a stored blocked_until is the instant of a
\* limit-exceeded deny of that caller plus windowSec seconds
C22_LimitSetsFullWindow ==
    /\ [][calls' # calls =>
            LET key == last'.key
                cfg == last'.config
                kept == Pruned(key, cfg)
            IN  /\ (~IsBlocked(EntryBefore(key), now) /\ Len(kept) >= cfg.max)
                       <=> last'.path = "limit"
                /\ last'.path = "limit" =>
                      /\ last'.res.status = 429
                      /\ last'.res.body.retryAfter = cfg.windowSec
                      /\ store'[key].blocked_until = now + cfg.windowSec * 1000
                      /\ store'[key].timestamps = kept]_vars
    /\ [](\A c \in Callers :
            LET key == KeyOf(c[1], c[2]) IN
            (key \in DOMAIN store /\ "blocked_until" \in DOMAIN store[key]) =>
                \E i \in DOMAIN HistOf(Who(c[1], c[2])) :
                    /\ HistOf(Who(c[1], c[2]))[i].path = "limit"
                    /\ store[key].blocked_until =
                          HistOf(Who(c[1], c[2]))[i].t + c[2].windowSec * 1000)

\* a caller allowed at 0 exceeded the limit at 1 s: its block ends at 61 s, a full
\* window after the deny, and its timestamps are still the one of instant 0
C22_Witness ==
    /\ last # NoRequest
    /\ last.path = "limit"
    /\ last.t = 1000
    /\ last.res.body.retryAfter = 60
    /\ store[last.key] = [timestamps |-> <<0>>, blocked_until |-> 61000]

\* C23: on a blocked fast-path deny, retryAfter is the least integer number of seconds
\* that reaches blocked_until from now, ceil((blocked_until - now) / 1000), and lies
\* between 1 and windowSec
C23_RetryAfterIsCeil ==
    [][(calls' # calls /\ last'.path = "blocked") =>
          LET left == store[last'.key].blocked_until - now
              r    == last'.res.body.retryAfter
          IN  /\ r \in Nat
              /\ (r - 1) * 1000 < left /\ left <= r * 1000
              /\ 1 <= r /\ r <= last'.config.windowSec
              /\ last'.res.headers["Retry-After"] = ToString(r)]_vars

\* a retry 1.5 s into a block of 60 s was told to wait 59 s, for the 58.5 s left
C23_Witness ==
    /\ last # NoRequest
    /\ last.path = "blocked"
    /\ last.t = 1500
    /\ last.key \in DOMAIN store
    /\ store[last.key].blocked_until = 60000
    /\ last.res.body.retryAfter = 59

\* the oldest of a non-empty sequence of timestamps
Oldest(ts) == CHOOSE x \in Range(ts) : \A y \in Range(ts) : x <= y

\* C24: a call that finds the record full (max timestamps) and no block in force is
\* allowed when the oldest timestamp is exactly windowSec old, all of them being pruned
\* before the count, and is denied at the limit when the oldest is younger than that;
\* after any call that prunes, no stored timestamp of the record has age >= windowSec
C24_PruneBeforeCount ==
    [][calls' # calls =>
          LET key  == last'.key
              cfg  == last'.config
              e    == EntryBefore(key)
              full == Len(e.timestamps) = cfg.max /\ ~IsBlocked(e, now)
          IN  /\ (full /\ now - Oldest(e.timestamps) = cfg.windowSec * 1000) =>
                    /\ last'.path = "allow"
                    /\ \A i \in DOMAIN e.timestamps :
                          now - e.timestamps[i] = cfg.windowSec * 1000 =>
                              e.timestamps[i] \notin Range(store'[key].timestamps)
              /\ (full /\ now - Oldest(e.timestamps) < cfg.windowSec * 1000) =>
                    last'.path = "limit"
              /\ last'.path # "blocked" =>
                    \A i \in DOMAIN store'[key].timestamps :
                        now - store'[key].timestamps[i] < cfg.windowSec * 1000]_vars

\* with max 1, caller "a" was allowed at 0 and again at 60 s, the instant its
\* timestamp reached the age of the window, while caller "b", allowed at 0, was
\* denied at 1.5 s
C24_Witness ==
    LET a == HistOf(Who("a", Strict))
        b == HistOf(Who("b", Strict))
    IN  /\ Len(a) = 2 /\ Len(b) = 2
        /\ a[1].t = 0 /\ a[1].path = "allow"
        /\ a[2].t = 60000 /\ a[2].path = "allow"
        /\ b[1].t = 0 /\ b[1].path = "allow"
        /\ b[2].t = 1500 /\ b[2].path = "limit"
        /\ store[KeyOf("a", Strict)].timestamps = <<60000>>

----------------------------------------------------------------------------
(* SpecBurst again: the size of a record *)

\* C25: in every state, the record of the identity under each registry tier holds at
\* most that tier's max timestamps, after allows, denies and sweeper runs alike
C25_AtMostMaxStored ==
    \A n \in TierNames :
        LET key == KeyOf(BurstIdentity, RATE_LIMITS[n]) IN
        key \in DOMAIN store => Len(store[key].timestamps) <= RATE_LIMITS[n].max

\* under READ the record held exactly 60 timestamps when the 61st request was denied,
\* and holds 60 after the deny and the retry that followed
C25_Witness ==
    /\ tier = "READ"
    /\ Len(HistOf(BurstCaller)) = RATE_LIMITS.READ.max + 2
    /\ HistOf(BurstCaller)[RATE_LIMITS.READ.max].path = "allow"
    /\ HistOf(BurstCaller)[RATE_LIMITS.READ.max + 1].path = "limit"
    /\ Len(store[KeyOf(BurstIdentity, RATE_LIMITS.READ)].timestamps) = RATE_LIMITS.READ.max

----------------------------------------------------------------------------
(* SpecRetain: requests one second apart, and sweeper runs when the older timestamps *)
(* are past the sweeper's retention and the younger are not                         *)

RetainInstants == {0, 1000, 300500}

InitRetain ==
    /\ now = 0
    /\ tier \in {"AI", "UPLOAD"}
    /\ store = <<>>
    /\ last = NoRequest
    /\ hist = <<>>
    /\ solo = <<>>
    /\ swept = NoSweep
    /\ unswept = <<>>
    /\ reborn = <<>>
    /\ calls = 0
    /\ pc = <<>>
    /\ req = <<>>

RetainCall ==
    /\ calls < MaxSweepCalls
    /\ Decide(SweepIdentity, RATE_LIMITS[tier])
    /\ UNCHANGED <<now, tier, pc, req>>

TickRetain ==
    /\ \E t \in RetainInstants : t > now /\ now' = t
    /\ UNCHANGED <<store, last, hist, solo, swept, unswept, reborn, calls, tier, pc, req>>

NextRetain == RetainCall \/ TickRetain \/ SweepRun

SpecRetain == InitRetain /\ [][NextRetain]_vars

\* C26: a sweeper run only deletes entries: every entry of the Map after the run was
\* in the Map before it, with the same timestamps and the same blocked_until
C26_SweepOnlyDeletes ==
    swept.ran =>
        /\ DOMAIN swept.after \subseteq DOMAIN swept.before
        /\ \A k \in DOMAIN swept.after :
              /\ swept.after[k].timestamps = swept.before[k].timestamps
              /\ swept.after[k] = swept.before[k]

\* a sweeper run at 300.5 s kept a record with timestamps at 0 and 1 s, the first of
\* which is older than the sweeper's five minutes
C26_Witness ==
    /\ swept.ran
    /\ swept.at = 300500
    /\ SweepKey \in DOMAIN swept.after
    /\ \E i \in DOMAIN swept.after[SweepKey].timestamps :
          swept.at - swept.after[SweepKey].timestamps[i] >= RetentionMs
    /\ \E i \in DOMAIN swept.after[SweepKey].timestamps :
          swept.at - swept.after[SweepKey].timestamps[i] < RetentionMs
    /\ store = swept.after

----------------------------------------------------------------------------
(* SpecAi: requests of one user to the five AI-backed endpoints, served concurrently *)

AiInstants == {0, 1000, 60500}

AiIdle == GuardIdle

\* what auth() resolves userId to in SpecAi: null or an identifier
AiSessions == {NoUser, <<"u", "1">>}

\* handlers that have arrived with a session and have not reached checkRateLimit yet
AiWaiting == {h \in Handlers : pc[h] = "auth" /\ UserTruthy(req[h].session)}

InitAi ==
    /\ now = 0
    /\ tier = "AI"
    /\ store = <<>>
    /\ last = NoRequest
    /\ hist = <<>>
    /\ solo = <<>>
    /\ swept = NoSweep
    /\ unswept = <<>>
    /\ reborn = <<>>
    /\ calls = 0
    /\ pc = [h \in Handlers |-> "idle"]
    /\ req = [h \in Handlers |-> AiIdle]

\* POST of one of the endpoints is called; it suspends at await auth()
AiArrive(h) ==
    /\ pc[h] = "idle"
    /\ \E session \in AiSessions, e \in Endpoints :
          /\ UserTruthy(session) => calls + Cardinality(AiWaiting) < MaxAiRequests
          /\ req' = [req EXCEPT ![h] = [AiIdle EXCEPT !.session = session, !.route = e]]
    /\ pc' = [pc EXCEPT ![h] = "auth"]
    /\ UNCHANGED <<now, store, last, hist, solo, swept, unswept, reborn, calls, tier>>

\* if (!userId) return 401
AiUnauthorized(h) ==
    /\ pc[h] = "auth"
    /\ ~UserTruthy(req[h].session)
    /\ Return(h, 401)

\* the response has been sent
AiFinish(h) ==
    /\ pc[h] = "done"
    /\ pc' = [pc EXCEPT ![h] = "idle"]
    /\ req' = [req EXCEPT ![h] = AiIdle]
    /\ UNCHANGED <<now, store, last, hist, solo, swept, unswept, reborn, calls, tier>>

TickAi ==
    /\ \E t \in AiInstants : t > now /\ now' = t
    /\ UNCHANGED <<store, last, hist, solo, swept, unswept, reborn, calls, tier, pc, req>>

NextAi ==
    \/ \E h \in Handlers :
          \/ AiArrive(h) \/ AiUnauthorized(h) \/ AiRateLimit(h)
          \/ AnalyzeJson(h) \/ AnalyzeSelected(h) \/ AnalyzeInserted(h)
          \/ AnalyzeGenerated(h) \/ AnalyzeSaved(h)
          \/ CoverLetterJson(h) \/ CoverLetterSelected(h) \/ CoverLetterStreamed(h)
          \/ GenerateJson(h) \/ GenerateSelected(h) \/ GenerateExisting(h)
          \/ GenerateCached(h) \/ GenerateGenerated(h) \/ GenerateSaved(h)
          \/ FeedbackJson(h) \/ FeedbackSelected(h) \/ FeedbackGenerated(h)
          \/ FeedbackSaved(h)
          \/ EnrichJson(h) \/ EnrichSelected(h) \/ EnrichNews(h) \/ EnrichNewsJson(h)
          \/ EnrichGenerated(h) \/ EnrichSaved(h)
          \/ AiThrow(h) \/ AiFinish(h)
    \/ TickAi
    \/ Sweep

SpecAi == InitAi /\ [][NextAi]_vars

\* the number of decisions that allowed identifier, under whatever class name, at
\* instants in (t - 60 s, t]
AdmittedWithin(identifier, t) ==
    LET count[ws \in SUBSET DOMAIN hist] ==
            IF ws = {} THEN 0
            ELSE LET w == CHOOSE x \in ws : TRUE
                 IN  (IF w[1] = identifier
                      THEN Cardinality({i \in DOMAIN hist[w] :
                                          /\ hist[w][i].path = "allow"
                                          /\ t - 60000 < hist[w][i].t
                                          /\ hist[w][i].t <= t})
                      ELSE 0) + count[ws \ {w}]
    IN  count[DOMAIN hist]

\* C27: every decision taken by one of the five AI-backed endpoints is taken on the
\* identity's record under "ai", at most 5 of the requests of one identity key to
\* these endpoints together are allowed within any trailing 60 seconds, and a handler
\* reaches the model call only after its request was allowed
C27_AiEndpointsShareQuota ==
    /\ last # NoRequest => last.key = "ai:" \o last.identifier
    /\ \A t \in AiInstants : AdmittedWithin("u1:unknown", t) <= RATE_LIMITS.AI.max
    /\ \A h \in Handlers :
          pc[h] = "ai" => req[h].decided /\ req[h].rl = Null /\ "ai" \in req[h].started

\* five requests were allowed at 0 and 1 s, a sixth to company/enrich was denied
\* while an earlier one to another endpoint is at the model call
C27_Witness ==
    \E h1 \in Handlers : \E h2 \in Handlers \ {h1} :
        /\ AdmittedWithin("u1:unknown", 1000) = RATE_LIMITS.AI.max
        /\ now = 1000
        /\ pc[h1] = "done" /\ req[h1].route = "POST /api/company/enrich" /\ req[h1].status = 429
        /\ pc[h2] = "ai" /\ req[h2].route = "POST /api/analyze"

----------------------------------------------------------------------------
(* SpecGuard again: rejected requests and the store *)

\* C28 as claimed: a request answered 401 or 403 has not been through checkRateLimit
C28_AsClaimed ==
    \A h \in Handlers :
        (pc[h] = "done" /\ req[h].status \in {401, 403}) => ~req[h].decided

\* some entry of the Map was created or changed, or a call was counted
Touched ==
    \/ calls' # calls
    \/ \E k \in DOMAIN store' : k \notin DOMAIN store \/ store'[k] # store[k]

\* C28 amended: checkRateLimit is called only for a request whose authentication
\* succeeded and, in the admin route, whose role check passed; a request answered 401,
\* or answered 403 by the admin role check, has not been through checkRateLimit, and
\* the step that rejects a request with 401 or 403 creates and changes no record (the
\* 403 of cover-letter/generate for a resume of another user comes after the decision)
C28_DecisionAfterAuth ==
    /\ [](\A h \in Handlers :
            /\ req[h].decided => UserTruthy(req[h].session)
            /\ (pc[h] = "done" /\ req[h].status = 401) => ~req[h].decided
            /\ (tier = "ADMIN" /\ pc[h] = "done" /\ req[h].status = 403) => ~req[h].decided)
    /\ [][Touched =>
            \E h \in Handlers :
                /\ ~req[h].decided /\ req'[h].decided
                /\ UserTruthy(req[h].session)
                /\ req'[h].status \notin {401, 403}
                /\ tier = "ADMIN" => pc[h] = "user"]_vars

\* under ADMIN, with 20 requests allowed before, one request was answered 403 by the
\* role check and another 401, neither having been through checkRateLimit, and the
\* record still holds 20 timestamps and no block
C28_Witness ==
    \E h1 \in Handlers : \E h2 \in Handlers \ {h1} :
        /\ tier = "ADMIN"
        /\ calls = RATE_LIMITS.ADMIN.max
        /\ pc[h1] = "done" /\ req[h1].status = 403 /\ ~req[h1].decided
        /\ pc[h2] = "done" /\ req[h2].status = 401 /\ ~req[h2].decided
        /\ store = ("admin:u1:unknown" :>
                       [timestamps |-> [i \in 1..RATE_LIMITS.ADMIN.max |-> 0]])

----------------------------------------------------------------------------
(* SpecOrigin: one authenticated user sends requests from two origins under a tier *)

Origins == {"7", "9"}

\* the request that arrives from origin o: "7" behind a proxy, "9" directly
RequestFrom(o) ==
    IF o = "7" THEN [headers |-> [x \in {"x-forwarded-for"} |-> <<"7", ",", " ", "8">>]]
    ELSE [headers |-> [x \in {"x-real-ip"} |-> <<"9">>]]

OriginUser == <<"u", "1">>

InitOrigin ==
    /\ now = 0
    /\ tier \in {"AI", "UPLOAD"}
    /\ store = <<>>
    /\ last = NoRequest
    /\ hist = <<>>
    /\ solo = <<>>
    /\ swept = NoSweep
    /\ unswept = <<>>
    /\ reborn = <<>>
    /\ calls = 0
    /\ pc = <<>>
    /\ req = [o \in Origins |-> <<>>]

\* checkRateLimit(getRateLimitKey(req, userId), RATE_LIMITS.<tier>) for a request from
\* origin o; the path taken is logged per origin
OriginCall(o) ==
    /\ Len(req[o]) < RATE_LIMITS[tier].max + MaxExtra
    /\ Decide(getRateLimitKey(RequestFrom(o), OriginUser), RATE_LIMITS[tier])
    /\ req' = [req EXCEPT ![o] = Append(@, last'.path)]
    /\ UNCHANGED <<now, tier, pc>>

NextOrigin == (\E o \in Origins : OriginCall(o)) \/ Sweep

SpecOrigin == InitOrigin /\ [][NextOrigin]_vars

\* C29: the requests of one identifier from two origins are counted in two records of
\* the tier: from each origin the i-th request at one instant is allowed exactly when
\* i <= max, however many requests the other origin has made, and the record of each
\* origin holds that origin's allowed requests only
C29_OriginsCountedApart ==
    /\ \A o \in Origins : \A i \in DOMAIN req[o] :
          req[o][i] = "allow" <=> i <= RATE_LIMITS[tier].max
    /\ \A o \in Origins :
          LET key == RATE_LIMITS[tier].prefix \o ":" \o Str(OriginUser) \o ":" \o o IN
          req[o] # <<>> =>
              /\ key \in DOMAIN store
              /\ Len(store[key].timestamps) =
                    Cardinality({i \in DOMAIN req[o] : req[o][i] = "allow"})

\* under AI, origin "7" has exhausted the limit and been denied twice, and a request
\* from origin "9" made after that was allowed
C29_Witness ==
    /\ tier = "AI"
    /\ Len(req["7"]) = RATE_LIMITS.AI.max + 2
    /\ req["7"][RATE_LIMITS.AI.max + 2] = "blocked"
    /\ req["9"] = <<"allow">>
    /\ last.key = "ai:u1:9"
    /\ last.res = Null
    /\ DOMAIN store = {"ai:u1:7", "ai:u1:9"}

----------------------------------------------------------------------------
(* Spec again: what the timestamps of a record are *)

\* the instants at which caller w was allowed, in the order of the decisions
AllowedTimes(w) ==
    LET ok == SelectSeq(HistOf(w), Allowed) IN [i \in DOMAIN ok |-> ok[i].t]

\* ts is what is left of seq after dropping some of its first elements
IsSuffix(ts, seq) ==
    /\ Len(ts) <= Len(seq)
    /\ ts = SubSeq(seq, Len(seq) - Len(ts) + 1, Len(seq))

\* C30: in every state the timestamps of each record are the most recent of the
\* instants at which a request for that key was allowed, once each, in the order of the
\* decisions, which is non-decreasing; an allowed request adds its instant at the end
\* and a denied request adds none
C30_TimestampsAreAllows ==
    /\ [](\A c \in Callers :
            LET key == KeyOf(c[1], c[2]) IN
            key \in DOMAIN store =>
                /\ IsSuffix(store[key].timestamps, AllowedTimes(Who(c[1], c[2])))
                /\ \A i \in DOMAIN store[key].timestamps :
                   \A j \in DOMAIN store[key].timestamps :
                      i <= j => store[key].timestamps[i] <= store[key].timestamps[j])
    /\ [][calls' # calls =>
            LET key == last'.key
                kept == Pruned(key, last'.config)
            IN  /\ last'.path = "allow" => store'[key].timestamps = kept \o <<now>>
                /\ last'.path = "limit" => store'[key].timestamps = kept
                /\ last'.path = "blocked" =>
                      store'[key].timestamps = EntryBefore(key).timestamps]_vars
    /\ [][now' >= now]_vars

\* with max 2, a caller was allowed at 0 and at 1 s and denied at 1.5 s; its record
\* holds 0 and 1 s, in that order, and nothing for the denied request
C30_Witness ==
    LET h == HistOf(Who("a", Loose)) IN
    /\ Len(h) = 3
    /\ h[3].path = "limit" /\ h[3].t = 1500
    /\ store[KeyOf("a", Loose)].timestamps = <<0, 1000>>
    /\ AllowedTimes(Who("a", Loose)) = <<0, 1000>>

====
